---- MODULE Spec2Model ----
(***************************************************************************)
(* GraphSON v3 decoding of gremlin-client (io/serializer_v3.rs).           *)
(*                                                                         *)
(* The decoders are pure functions from a serde_json Value to a            *)
(* GremlinResult.  A JSON node, a decoded value and a result are records   *)
(* of one fixed shape each, so that any two of them can be compared.       *)
(* An evaluation ends in one of three ways: Ok(v), Err(e), or a panic      *)
(* (Rust unwinding out of the whole call).                                 *)
(*                                                                         *)
(* The traversal builder (process/graph_traversal.rs and                   *)
(* process/traversal/anonymous_traversal_source.rs) is a second state      *)
(* machine over the same variables: a GraphTraversal handle owns a         *)
(* Bytecode buffer, a fluent step consumes the handle and returns one      *)
(* that owns the same buffer.                                              *)
(***************************************************************************)
EXTENDS Integers, Sequences, FiniteSets, TLC

\* Longest JSON array generated as a g:List / g:Set / g:Map payload.
MaxLen == 4

\* Longest labels / objects list generated for a g:Path payload.
MaxPathLen == 2

\* Longest metrics list generated for a g:TraversalMetrics payload.
MaxMetrics == 2

\* Most calls made on traversals in one behaviour.
MaxCalls == 3

\* val, op, out: the JSON node handed to a decoder, the call made on it and
\* its outcome.  buffers, source, handles: the Bytecode buffers allocated so
\* far, the traversal of the AnonymousTraversalSource and the live
\* GraphTraversal handles; last, calls: the latest call on a traversal and
\* the number of calls so far.
VARIABLES val, op, out, buffers, source, handles, last, calls

decoderVars == <<val, op, out>>

traversalVars == <<buffers, source, handles, last, calls>>

vars == <<val, op, out, buffers, source, handles, last, calls>>

(***************************************************************************)
(* serde_json::Value                                                       *)
(***************************************************************************)
JNode(k, s, n, b, a, o) == [k |-> k, s |-> s, n |-> n, b |-> b, a |-> a, o |-> o]

JNull == JNode("null", "", 0, FALSE, <<>>, <<>>)

JBool(b) == JNode("bool", "", 0, b, <<>>, <<>>)

JStr(s) == JNode("str", s, 0, FALSE, <<>>, <<>>)

\* An integral JSON number n.
JNum(n) == JNode("num", "", n, FALSE, <<>>, <<>>)

\* A JSON number with a fractional part (n + 0.5).
JFrac(n) == JNode("num", "", n, TRUE, <<>>, <<>>)

JArr(a) == JNode("arr", "", 0, FALSE, a, <<>>)

\* An object is the sequence of its entries in iteration order.
JObj(o) == JNode("obj", "", 0, FALSE, <<>>, o)

Entry(key, v) == [key |-> key, val |-> v]

Env(tag, v) == JObj(<<Entry("@type", JStr(tag)), Entry("@value", v)>>)

\* Value::get(key): the entry of an object, None otherwise.
Has(v, key) == v.k = "obj" /\ \E i \in 1..Len(v.o) : v.o[i].key = key

\* Value's Index<&str>: Null for a missing key and for a non-object.
Get(v, key) ==
    IF Has(v, key)
    THEN v.o[CHOOSE i \in 1..Len(v.o) : v.o[i].key = key].val
    ELSE JNull

RECURSIVE JoinText(_, _)
JoinText(parts, i) ==
    IF i > Len(parts) THEN ""
    ELSE IF i = Len(parts) THEN parts[i]
    ELSE parts[i] \o "," \o JoinText(parts, i + 1)

\* Value::to_string(): the compact JSON text of a node.
RECURSIVE ToText(_)
ToText(v) ==
    CASE v.k = "null" -> "null"
      [] v.k = "bool" -> IF v.b THEN "true" ELSE "false"
      [] v.k = "str" -> "\"" \o v.s \o "\""
      [] v.k = "num" -> IF v.b THEN ToString(v.n) \o ".5" ELSE ToString(v.n)
      [] v.k = "arr" ->
            "[" \o JoinText([i \in 1..Len(v.a) |-> ToText(v.a[i])], 1) \o "]"
      [] v.k = "obj" ->
            "{" \o JoinText([i \in 1..Len(v.o) |->
                     "\"" \o v.o[i].key \o "\":" \o ToText(v.o[i].val)], 1) \o "}"

(***************************************************************************)
(* GValue, GID and the entities                                            *)
(***************************************************************************)
\* t: variant, s/n/b: scalar payload, l: ordered components, m: map entries.
G(t, s, n, b, l, m) == [t |-> t, s |-> s, n |-> n, b |-> b, l |-> l, m |-> m]

GNull == G("Null", "", 0, FALSE, <<>>, {})

GBool(b) == G("Bool", "", 0, b, <<>>, {})

GString(s) == G("String", s, 0, FALSE, <<>>, {})

GInt32(n) == G("Int32", "", n, FALSE, <<>>, {})

GInt64(n) == G("Int64", "", n, FALSE, <<>>, {})

GFloat(n, frac) == G("Float", "", n, frac, <<>>, {})

GDouble(n, frac) == G("Double", "", n, frac, <<>>, {})

GDate(n) == G("Date", "", n, FALSE, <<>>, {})

GUuid(s) == G("Uuid", s, 0, FALSE, <<>>, {})

GList(l) == G("List", "", 0, FALSE, l, {})

\* A Map is the set of its (key, value) entries, one per key.
GMap(m) == G("Map", "", 0, FALSE, <<>>, m)

MapInsert(m, key, v) == {e \in m : e.key # key} \cup {Entry(key, v)}

MapHas(m, key) == \E e \in m : e.key = key

MapGet(m, key) == (CHOOSE e \in m : e.key = key).val

MapRemove(m, key) == {e \in m : e.key # key}

MapKeys(m) == {e.key : e \in m}

GIDString(s) == G("GID::String", s, 0, FALSE, <<>>, {})

GIDInt32(n) == G("GID::Int32", "", n, FALSE, <<>>, {})

GIDInt64(n) == G("GID::Int64", "", n, FALSE, <<>>, {})

\* Vertex::new(id, label, properties)
NewVertex(id, label, properties) == G("Vertex", label, 0, FALSE, <<id>>, properties)

\* Edge::new(id, label, in_v_id, in_v_label, out_v_id, out_v_label, properties)
NewEdge(id, label, inId, inLabel, outId, outLabel, properties) ==
    G("Edge", label, 0, FALSE, <<id, inId, GString(inLabel), outId, GString(outLabel)>>,
      properties)

\* VertexProperty::new(id, label, value)
NewVertexProperty(id, label, v) == G("VertexProperty", label, 0, FALSE, <<id, v>>, {})

\* Property::new(key, value)
NewProperty(key, v) == G("Property", key, 0, FALSE, <<v>>, {})

\* Path::new(labels, objects)
NewPath(labels, objects) == G("Path", "", 0, FALSE, <<labels, GList(objects)>>, {})

\* Metric::new(id, name, duration, count, traversers, perc_duration)
NewMetric(id, name, duration, count, traversers, perc) ==
    G("Metric", id, 0, FALSE, <<GString(name), duration, count, traversers, perc>>, {})

(***************************************************************************)
(* GremlinResult, with the panic as a third outcome                        *)
(***************************************************************************)
Res(tag, v, ev, ek) == [tag |-> tag, v |-> v, ev |-> ev, ek |-> ek]

Ok(v) == Res("Ok", v, "", "")

\* ev: the GremlinError variant; ek: what the message reports.
Err(ev, ek) == Res("Err", GNull, ev, ek)

Panic == Res("Panic", GNull, "", "index out of bounds")

NotRun == Res("None", GNull, "", "")

IsOk(r) == r.tag = "Ok"

IsErr(r) == r.tag = "Err"

\* get_value!(v, Value::String) and get_value!(v, Value::Array)
ShapeErr(expected) == Err("Json", expected)

\* GValue::take::<T>()
Take(r, variant) ==
    IF ~IsOk(r) THEN r
    ELSE IF r.v.t = variant THEN r
    ELSE Err("Cast", "Downcast")

(***************************************************************************)
(* The reader and the decoders                                             *)
(***************************************************************************)
RECURSIVE deserializer_v3(_)
RECURSIVE Dispatch(_, _)
RECURSIVE ListLoop(_, _, _)
RECURSIVE MapLoop(_, _, _)
RECURSIVE PropertyArray(_, _, _)
RECURSIVE PropertiesLoop(_, _, _)
RECURSIVE FilterVariant(_, _, _)
RECURSIVE ListLoopDistinct(_, _, _)
RECURSIVE IntermediateLoop(_, _)

\* expect_i32!, expect_i64!: an integral JSON number.
ExpectInt(v) == v.k = "num" /\ ~v.b

\* expect_float!, expect_double!: any JSON number.
ExpectNumber(v) == v.k = "num"

\* The texts uuid::Uuid::parse_str accepts, among the strings generated.
UuidTexts == {"41d2e28a-20a4-4ab0-b379-d810dede3786"}

\* deserialize_id collapsing the integer widths: an Int32 becomes GID::Int64.
deserialize_id_widened(v) ==
    LET r == deserializer_v3(v) IN
    CASE r.tag = "Ok" ->
            (CASE r.v.t = "String" -> Ok(GIDString(r.v.s))
               [] r.v.t = "Int32" -> Ok(GIDInt64(r.v.n))
               [] r.v.t = "Int64" -> Ok(GIDInt64(r.v.n))
               [] OTHER -> Err("Json", "cannot be an id"))
      [] r.tag = "Err" ->
            IF r.ev = "Json" THEN Ok(GIDString(ToText(v))) ELSE r
      [] OTHER -> r

\* deserialize_id falling back to the JSON text on every error of the read
\* (Err(_) in place of Err(GremlinError::Json(_))).
deserialize_id_any_error(v) ==
    LET r == deserializer_v3(v) IN
    CASE r.tag = "Ok" ->
            (CASE r.v.t = "String" -> Ok(GIDString(r.v.s))
               [] r.v.t = "Int32" -> Ok(GIDInt32(r.v.n))
               [] r.v.t = "Int64" -> Ok(GIDInt64(r.v.n))
               [] OTHER -> Err("Json", "cannot be an id"))
      [] r.tag = "Err" -> Ok(GIDString(ToText(v)))
      [] OTHER -> r

deserialize_id(v) ==
    LET r == deserializer_v3(v) IN
    CASE r.tag = "Ok" ->
            (CASE r.v.t = "String" -> Ok(GIDString(r.v.s))
               [] r.v.t = "Int32" -> Ok(GIDInt32(r.v.n))
               [] r.v.t = "Int64" -> Ok(GIDInt64(r.v.n))
               [] OTHER -> Err("Json", "cannot be an id"))
      [] r.tag = "Err" ->
            IF r.ev = "Json" THEN Ok(GIDString(ToText(v))) ELSE r
      [] OTHER -> r

deserialize_date(v) ==
    IF ExpectInt(v) THEN Ok(GDate(v.n)) ELSE ShapeErr("i64")

deserialize_g64(v) ==
    IF ExpectInt(v) THEN Ok(GInt64(v.n)) ELSE ShapeErr("i64")

deserialize_uuid(v) ==
    IF v.k # "str" THEN ShapeErr("Value::String")
    ELSE IF v.s \in UuidTexts THEN Ok(GUuid(v.s))
    ELSE Err("Uuid", "parse")

deserialize_g32(v) ==
    IF ExpectInt(v) THEN Ok(GInt32(v.n)) ELSE ShapeErr("i32")

deserialize_f32(v) ==
    IF ExpectNumber(v) THEN Ok(GFloat(v.n, v.b)) ELSE ShapeErr("float")

deserialize_f64(v) ==
    IF ExpectNumber(v) THEN Ok(GDouble(v.n, v.b)) ELSE ShapeErr("double")

\* for item in val { elements.push(reader(item)?) }, from element i on.
ListLoop(a, i, elements) ==
    IF i > Len(a) THEN Ok(GList(elements))
    ELSE LET r == deserializer_v3(a[i]) IN
         IF ~IsOk(r) THEN r ELSE ListLoop(a, i + 1, Append(elements, r.v))

\* deserialize_list collecting into a set-like list: a repeated value is dropped.
ListLoopDistinct(a, i, elements) ==
    IF i > Len(a) THEN Ok(GList(elements))
    ELSE LET r == deserializer_v3(a[i]) IN
         IF ~IsOk(r) THEN r
         ELSE IF \E j \in 1..Len(elements) : elements[j] = r.v
              THEN ListLoopDistinct(a, i + 1, elements)
              ELSE ListLoopDistinct(a, i + 1, Append(elements, r.v))

deserialize_list_distinct(v) ==
    IF v.k # "arr" THEN ShapeErr("Value::Array") ELSE ListLoopDistinct(v.a, 1, <<>>)

deserialize_list(v) ==
    IF v.k # "arr" THEN ShapeErr("Value::Array") ELSE ListLoop(v.a, 1, <<>>)

\* while x < val.len() { ... x += 2 }, x counted from 0 as in the code.
MapLoop(a, x, map) ==
    IF ~(x < Len(a)) THEN Ok(GMap(map))
    ELSE IF a[x + 1].k # "str" THEN ShapeErr("Value::String")
    ELSE IF ~(x + 1 < Len(a)) THEN Panic
    ELSE LET r == deserializer_v3(a[x + 2]) IN
         IF ~IsOk(r) THEN r ELSE MapLoop(a, x + 2, MapInsert(map, a[x + 1].s, r.v))

deserialize_map(v) ==
    IF v.k # "arr" THEN ShapeErr("Value::Array") ELSE MapLoop(v.a, 0, {})

\* val.get("label") with its default.
LabelOf(v, key, default) ==
    IF ~Has(v, key) THEN Ok(GString(default))
    ELSE IF Get(v, key).k = "str" THEN Ok(GString(Get(v, key).s))
    ELSE ShapeErr("Value::String")

PropertiesShapeErr == Err("Json", "Expected object or null for properties")

\* for elem in arr { vec.push(reader(elem)?.take()?) }
PropertyArray(arr, i, vec) ==
    IF i > Len(arr) THEN Ok(GList(vec))
    ELSE LET r == Take(deserializer_v3(arr[i]), "VertexProperty") IN
         IF ~IsOk(r) THEN r ELSE PropertyArray(arr, i + 1, Append(vec, r.v))

\* for (k, v) in o { ... p.insert(k, vec) }
PropertiesLoop(o, i, p) ==
    IF i > Len(o) THEN Ok(G("Properties", "", 0, FALSE, <<>>, p))
    ELSE IF o[i].val.k # "arr" THEN PropertiesShapeErr
    ELSE LET r == PropertyArray(o[i].val.a, 1, <<>>) IN
         IF ~IsOk(r) THEN r ELSE PropertiesLoop(o, i + 1, MapInsert(p, o[i].key, r.v))

deserialize_vertex_properties(properties) ==
    CASE properties.k = "obj" -> PropertiesLoop(properties.o, 1, {})
      [] properties.k = "null" -> Ok(G("Properties", "", 0, FALSE, <<>>, {}))
      [] OTHER -> PropertiesShapeErr

\* deserialize_vertex with the default label of another decoder.
deserialize_vertex_wrong_default(v) ==
    LET label == LabelOf(v, "label", "vertex_property") IN
    IF ~IsOk(label) THEN label
    ELSE LET id == deserialize_id(Get(v, "id")) IN
         IF ~IsOk(id) THEN id
         ELSE LET props == deserialize_vertex_properties(Get(v, "properties")) IN
              IF ~IsOk(props) THEN props
              ELSE Ok(NewVertex(id.v, label.v.s, props.v.m))

deserialize_vertex(v) ==
    LET label == LabelOf(v, "label", "vertex") IN
    IF ~IsOk(label) THEN label
    ELSE LET id == deserialize_id(Get(v, "id")) IN
         IF ~IsOk(id) THEN id
         ELSE LET props == deserialize_vertex_properties(Get(v, "properties")) IN
              IF ~IsOk(props) THEN props
              ELSE Ok(NewVertex(id.v, label.v.s, props.v.m))

\* get_value!(&val[key], Value::String)
StringField(v, key) ==
    IF Get(v, key).k = "str" THEN Ok(GString(Get(v, key).s))
    ELSE ShapeErr("Value::String")

deserialize_edge(v) ==
    LET label == LabelOf(v, "label", "edge") IN
    IF ~IsOk(label) THEN label
    ELSE LET id == deserialize_id(Get(v, "id")) IN
    IF ~IsOk(id) THEN id
    ELSE LET in_v_id == deserialize_id(Get(v, "inV")) IN
    IF ~IsOk(in_v_id) THEN in_v_id
    ELSE LET in_v_label == StringField(v, "inVLabel") IN
    IF ~IsOk(in_v_label) THEN in_v_label
    ELSE LET out_v_id == deserialize_id(Get(v, "outV")) IN
    IF ~IsOk(out_v_id) THEN out_v_id
    ELSE LET out_v_label == StringField(v, "outVLabel") IN
    IF ~IsOk(out_v_label) THEN out_v_label
    ELSE Ok(NewEdge(id.v, label.v.s, in_v_id.v, in_v_label.v.s,
                    out_v_id.v, out_v_label.v.s, {}))

deserialize_path(v) ==
    LET labels == deserializer_v3(Get(v, "labels")) IN
    IF ~IsOk(labels) THEN labels
    ELSE LET objects == Take(deserializer_v3(Get(v, "objects")), "List") IN
         IF ~IsOk(objects) THEN objects
         ELSE Ok(NewPath(labels.v, objects.v.l))

\* deserialize_vertex_property decoding the meta-properties as the vertex
\* decoder decodes properties.
deserialize_vertex_property_checked(v) ==
    LET label == LabelOf(v, "label", "vertex_property") IN
    IF ~IsOk(label) THEN label
    ELSE LET id == deserialize_id(Get(v, "id")) IN
         IF ~IsOk(id) THEN id
         ELSE LET value == deserializer_v3(Get(v, "value")) IN
              IF ~IsOk(value) THEN value
              ELSE LET props == deserialize_vertex_properties(Get(v, "properties")) IN
                   IF ~IsOk(props) THEN props
                   ELSE Ok(NewVertexProperty(id.v, label.v.s, value.v))

deserialize_vertex_property(v) ==
    LET label == LabelOf(v, "label", "vertex_property") IN
    IF ~IsOk(label) THEN label
    ELSE LET id == deserialize_id(Get(v, "id")) IN
         IF ~IsOk(id) THEN id
         ELSE LET value == deserializer_v3(Get(v, "value")) IN
              IF ~IsOk(value) THEN value
              ELSE Ok(NewVertexProperty(id.v, label.v.s, value.v))

deserialize_property(v) ==
    LET label == LabelOf(v, "key", "property") IN
    IF ~IsOk(label) THEN label
    ELSE LET value == deserializer_v3(Get(v, "value")) IN
         IF ~IsOk(value) THEN value
         ELSE Ok(NewProperty(label.v.s, value.v))

\* map.remove(field).ok_or_else(|| GremlinError::Json("Field .. not found in .."))
get_and_remove(map, field, owner) ==
    IF MapHas(map, field) THEN Ok(MapGet(map, field))
    ELSE Err("Json", "Field " \o field \o " not found in " \o owner)

\* .drain(0..).map(|e| e.take::<T>()).filter_map(Result::ok): elements i.. of l.
FilterVariant(l, i, variant) ==
    IF i > Len(l) THEN <<>>
    ELSE IF l[i].t = variant THEN <<l[i]>> \o FilterVariant(l, i + 1, variant)
    ELSE FilterVariant(l, i + 1, variant)

\* TraversalMetrics::new(duration, metrics)
NewTraversalMetrics(duration, ms) ==
    G("TraversalMetrics", "", 0, FALSE, <<duration, GList(ms)>>, {})

\* As deserialize_metrics, with collect::<Result<_, _>>()? in place of
\* filter_map(Result::ok): an element that is not a Metric fails the decode.
deserialize_metrics_strict(v) ==
    LET metrics == Take(deserializer_v3(v), "Map") IN
    IF ~IsOk(metrics) THEN metrics
    ELSE LET duration == Take(get_and_remove(metrics.v.m, "dur", "g:TraversalMetrics"),
                              "Double") IN
    IF ~IsOk(duration) THEN duration
    ELSE LET m == Take(get_and_remove(MapRemove(metrics.v.m, "dur"), "metrics",
                                      "g:TraversalMetrics"), "List") IN
    IF ~IsOk(m) THEN m
    ELSE IF \E i \in 1..Len(m.v.l) : m.v.l[i].t # "Metric" THEN Err("Cast", "Downcast")
    ELSE Ok(NewTraversalMetrics(duration.v, m.v.l))

deserialize_metrics(v) ==
    LET metrics == Take(deserializer_v3(v), "Map") IN
    IF ~IsOk(metrics) THEN metrics
    ELSE LET duration == Take(get_and_remove(metrics.v.m, "dur", "g:TraversalMetrics"),
                              "Double") IN
    IF ~IsOk(duration) THEN duration
    ELSE LET m == Take(get_and_remove(MapRemove(metrics.v.m, "dur"), "metrics",
                                      "g:TraversalMetrics"), "List") IN
    IF ~IsOk(m) THEN m
    ELSE Ok(NewTraversalMetrics(duration.v, FilterVariant(m.v.l, 1, "Metric")))

\* As deserialize_metric, with count and traversers exchanged in Metric::new.
deserialize_metric_swapped(v) ==
    LET metric == Take(deserializer_v3(v), "Map") IN
    IF ~IsOk(metric) THEN metric
    ELSE LET m0 == metric.v.m
             duration == Take(get_and_remove(m0, "dur", "g:Metrics"), "Double") IN
    IF ~IsOk(duration) THEN duration
    ELSE LET m1 == MapRemove(m0, "dur")
             id == Take(get_and_remove(m1, "id", "g:Metrics"), "String") IN
    IF ~IsOk(id) THEN id
    ELSE LET m2 == MapRemove(m1, "id")
             name == Take(get_and_remove(m2, "name", "g:Metrics"), "String") IN
    IF ~IsOk(name) THEN name
    ELSE LET m3 == MapRemove(m2, "name")
             counts == Take(get_and_remove(m3, "counts", "g:Metrics"), "Map") IN
    IF ~IsOk(counts) THEN counts
    ELSE LET traversers == Take(get_and_remove(counts.v.m, "traverserCount",
                                               "g:Metrics"), "Int64") IN
    IF ~IsOk(traversers) THEN traversers
    ELSE LET count == Take(get_and_remove(MapRemove(counts.v.m, "traverserCount"),
                                          "elementCount", "g:Metrics"), "Int64") IN
    IF ~IsOk(count) THEN count
    ELSE LET m4 == MapRemove(m3, "counts")
             annotations == Take(get_and_remove(m4, "annotations", "g:Metrics"),
                                 "Map") IN
    IF ~IsOk(annotations) THEN annotations
    ELSE LET perc_duration == Take(get_and_remove(annotations.v.m, "percentDur",
                                                  "g:Metrics"), "Double") IN
    IF ~IsOk(perc_duration) THEN perc_duration
    ELSE Ok(NewMetric(id.v.s, name.v.s, duration.v, traversers.v, count.v,
                      perc_duration.v))

deserialize_metric(v) ==
    LET metric == Take(deserializer_v3(v), "Map") IN
    IF ~IsOk(metric) THEN metric
    ELSE LET m0 == metric.v.m
             duration == Take(get_and_remove(m0, "dur", "g:Metrics"), "Double") IN
    IF ~IsOk(duration) THEN duration
    ELSE LET m1 == MapRemove(m0, "dur")
             id == Take(get_and_remove(m1, "id", "g:Metrics"), "String") IN
    IF ~IsOk(id) THEN id
    ELSE LET m2 == MapRemove(m1, "id")
             name == Take(get_and_remove(m2, "name", "g:Metrics"), "String") IN
    IF ~IsOk(name) THEN name
    ELSE LET m3 == MapRemove(m2, "name")
             counts == Take(get_and_remove(m3, "counts", "g:Metrics"), "Map") IN
    IF ~IsOk(counts) THEN counts
    ELSE LET traversers == Take(get_and_remove(counts.v.m, "traverserCount",
                                               "g:Metrics"), "Int64") IN
    IF ~IsOk(traversers) THEN traversers
    ELSE LET count == Take(get_and_remove(MapRemove(counts.v.m, "traverserCount"),
                                          "elementCount", "g:Metrics"), "Int64") IN
    IF ~IsOk(count) THEN count
    ELSE LET m4 == MapRemove(m3, "counts")
             annotations == Take(get_and_remove(m4, "annotations", "g:Metrics"),
                                 "Map") IN
    IF ~IsOk(annotations) THEN annotations
    ELSE LET perc_duration == Take(get_and_remove(annotations.v.m, "percentDur",
                                                  "g:Metrics"), "Double") IN
    IF ~IsOk(perc_duration) THEN perc_duration
    ELSE Ok(NewMetric(id.v.s, name.v.s, duration.v, count.v, traversers.v,
                      perc_duration.v))

\* IntermediateRepr::new(traversal, strategy, category)
NewIntermediateRepr(traversal, strategy, category) ==
    G("IntermediateRepr", strategy, 0, FALSE, <<GList(traversal), GString(category)>>, {})

map_intermediate(m) ==
    LET traversal == Take(get_and_remove(m, "traversal", "g:TraversalExplanation"),
                          "List") IN
    IF ~IsOk(traversal) THEN traversal
    ELSE LET m1 == MapRemove(m, "traversal")
             strategy == Take(get_and_remove(m1, "strategy", "g:TraversalExplanation"),
                              "String") IN
    IF ~IsOk(strategy) THEN strategy
    ELSE LET category == Take(get_and_remove(MapRemove(m1, "strategy"), "category",
                                             "g:TraversalExplanation"), "String") IN
    IF ~IsOk(category) THEN category
    ELSE Ok(NewIntermediateRepr(FilterVariant(traversal.v.l, 1, "String"),
                                strategy.v.s, category.v.s))

\* .map(map_intermediate).filter_map(Result::ok) over the maps i.. of l.
IntermediateLoop(l, i) ==
    IF i > Len(l) THEN <<>>
    ELSE LET r == map_intermediate(l[i].m) IN
         IF IsOk(r) THEN <<r.v>> \o IntermediateLoop(l, i + 1)
         ELSE IntermediateLoop(l, i + 1)

\* TraversalExplanation::new(original, finals, intermediate)
NewTraversalExplanation(original, finals, intermediate) ==
    G("TraversalExplanation", "", 0, FALSE,
      <<GList(original), GList(finals), GList(intermediate)>>, {})

deserialize_explain(v) ==
    LET explain == Take(deserializer_v3(v), "Map") IN
    IF ~IsOk(explain) THEN explain
    ELSE LET m0 == explain.v.m
             original == Take(get_and_remove(m0, "original", "g:TraversalExplanation"),
                              "List") IN
    IF ~IsOk(original) THEN original
    ELSE LET m1 == MapRemove(m0, "original")
             finals == Take(get_and_remove(m1, "final", "g:TraversalExplanation"),
                            "List") IN
    IF ~IsOk(finals) THEN finals
    ELSE LET intermediate == Take(get_and_remove(MapRemove(m1, "final"), "intermediate",
                                                 "g:TraversalExplanation"), "List") IN
    IF ~IsOk(intermediate) THEN intermediate
    ELSE Ok(NewTraversalExplanation(
                FilterVariant(original.v.l, 1, "String"),
                FilterVariant(finals.v.l, 1, "String"),
                IntermediateLoop(FilterVariant(intermediate.v.l, 1, "Map"), 1)))

\* The tags of g_serielizer!(deserializer_v3, { ... }).
Registry ==
    {"g:Int32", "g:Int64", "g:Float", "g:Double", "g:Date", "g:UUID", "g:List",
     "g:Set", "g:Map", "g:Vertex", "g:VertexProperty", "g:Property", "g:Edge",
     "g:Path", "g:TraversalMetrics", "g:Metrics", "g:TraversalExplanation"}

Dispatch(tag, payload) ==
    CASE tag = "g:Int32" -> deserialize_g32(payload)
      [] tag = "g:Int64" -> deserialize_g64(payload)
      [] tag = "g:Float" -> deserialize_f32(payload)
      [] tag = "g:Double" -> deserialize_f64(payload)
      [] tag = "g:Date" -> deserialize_date(payload)
      [] tag = "g:UUID" -> deserialize_uuid(payload)
      [] tag = "g:List" -> deserialize_list(payload)
      [] tag = "g:Set" -> deserialize_list(payload)
      [] tag = "g:Map" -> deserialize_map(payload)
      [] tag = "g:Vertex" -> deserialize_vertex(payload)
      [] tag = "g:VertexProperty" -> deserialize_vertex_property(payload)
      [] tag = "g:Property" -> deserialize_property(payload)
      [] tag = "g:Edge" -> deserialize_edge(payload)
      [] tag = "g:Path" -> deserialize_path(payload)
      [] tag = "g:TraversalMetrics" -> deserialize_metrics(payload)
      [] tag = "g:Metrics" -> deserialize_metric(payload)
      [] tag = "g:TraversalExplanation" -> deserialize_explain(payload)

\* An object with exactly the keys @type and @value.
IsEnvelope(v) ==
    v.k = "obj" /\ Len(v.o) = 2 /\ Has(v, "@type") /\ Has(v, "@value")

\* read(node): the classification of the recursive reader.
deserializer_v3(v) ==
    CASE v.k = "null" -> Ok(GNull)
      [] v.k = "bool" -> Ok(GBool(v.b))
      [] v.k = "str" -> Ok(GString(v.s))
      [] v.k = "num" -> Err("Json", "untyped number")
      [] v.k = "arr" -> Err("Json", "bare array")
      [] v.k = "obj" ->
            IF ~IsEnvelope(v) THEN
                IF Has(v, "@type") \/ Has(v, "@value")
                THEN Err("Json", "malformed envelope")
                ELSE Err("Json", "bare object")
            ELSE IF Get(v, "@type").k # "str" THEN ShapeErr("Value::String")
            ELSE IF Get(v, "@type").s \in Registry
                 THEN Dispatch(Get(v, "@type").s, Get(v, "@value"))
                 ELSE Err("Generic", "unknown tag")

(***************************************************************************)
(* The JSON trees handed to the decoders                                   *)
(***************************************************************************)
Absent == JNode("absent", "", 0, FALSE, <<>>, <<>>)

\* The object with the given entries, those marked Absent left out.
MkObj(entries) == JObj(SelectSeq(entries, LAMBDA e : e.val.k # "absent"))

Int32Node(n) == Env("g:Int32", JNum(n))

Int64Node(n) == Env("g:Int64", JNum(n))

DoubleNode(n) == Env("g:Double", JNum(n))

\* A g:Map of odd length whose last element is a key.
OddMapNode == Env("g:Map", JArr(<<JStr("k")>>))

UnknownNode == Env("g:Foo", JNum(1))

\* A g:Metrics whose map lacks every field.
EmptyMetricNode == Env("g:Metrics", Env("g:Map", JArr(<<>>)))

\* A g:Path whose objects is a string.
BadPathNode == Env("g:Path", MkObj(<<Entry("objects", JStr("a"))>>))

Elems ==
    {JStr("a"), JStr("b"), JNum(1), Int32Node(1), UnknownNode, OddMapNode}

SeqsUpTo(S, n) == UNION {[1..m -> S] : m \in 0..n}

ArrayNodes == {JArr(a) : a \in SeqsUpTo(Elems, MaxLen)}

IdNodes ==
    {JStr("a"), JNum(7), JFrac(7), JNull, JBool(TRUE), JArr(<<>>), JObj(<<>>),
     Int32Node(1), Int64Node(1), DoubleNode(1), Env("g:Int32", JStr("a")),
     Env("g:UUID", JStr("zz")), Env("g:List", JArr(<<>>)), UnknownNode, OddMapNode,
     EmptyMetricNode, BadPathNode,
     Env("g:Vertex", MkObj(<<Entry("id", DoubleNode(1))>>)),
     Env("g:Vertex", MkObj(<<Entry("id", Int32Node(1))>>)),
     Env("g:List", JArr(<<UnknownNode>>))}

VPNode(id, value, properties) ==
    Env("g:VertexProperty",
        MkObj(<<Entry("id", id), Entry("label", JStr("name")),
                Entry("properties", properties), Entry("value", value)>>))

MetaNodes ==
    {Absent, JNull, JStr("x"), JNum(1), JArr(<<>>), JObj(<<>>),
     JObj(<<Entry("startTime", Int32Node(1997))>>),
     JObj(<<Entry("startTime", JArr(<<Int32Node(1997)>>))>>),
     JObj(<<Entry("startTime", JArr(<<JNum(1)>>))>>)}

VertexPropertyPayloads ==
    {MkObj(<<Entry("id", id), Entry("label", label), Entry("properties", p),
             Entry("value", value)>>) :
        id \in {Int64Node(0), DoubleNode(1)}, label \in {Absent, JStr("name"), JNum(1)},
        p \in MetaNodes, value \in {JStr("marko"), JNum(1)}}

PropertiesNodes ==
    {JNull, JStr("x"), JNum(1), JBool(TRUE), JArr(<<>>), JObj(<<>>)}
    \cup {JObj(<<Entry("location", l), Entry("name", n)>>) :
            l \in {JArr(<<>>), JStr("x"),
                   JArr(<<VPNode(Int64Node(6), JStr("san diego"), Absent),
                          VPNode(Int64Node(7), JStr("santa cruz"), Absent)>>),
                   JArr(<<OddMapNode>>), JArr(<<JStr("a")>>), JArr(<<JNum(1)>>)},
            n \in {JNull, JArr(<<VPNode(Int64Node(0), JStr("marko"), Absent)>>),
                   JArr(<<UnknownNode>>), JArr(<<Int32Node(1)>>)}}
    \cup {JObj(<<Entry("name", n)>>) :
            n \in {JArr(<<VPNode(Int64Node(0), JStr("marko"),
                                 JObj(<<Entry("startTime", Int32Node(1997))>>))>>),
                   JArr(<<VPNode(Int64Node(0), JStr("marko"), JStr("x"))>>),
                   JObj(<<>>)}}

VertexPayloads ==
    {MkObj(<<Entry("id", id), Entry("label", label), Entry("properties", p)>>) :
        id \in {Absent, Int32Node(45), Int64Node(45), JStr("a"), JNum(7), DoubleNode(1),
                UnknownNode},
        label \in {Absent, JStr("person"), JNum(1), JNull},
        p \in {Absent, JNull, JStr("x"), JObj(<<>>),
               JObj(<<Entry("name",
                            JArr(<<VPNode(Int64Node(0), JStr("marko"), Absent)>>))>>),
               JObj(<<Entry("name", JStr("x"))>>)}}

EdgePayloads ==
    {MkObj(<<Entry("id", id), Entry("inV", inV), Entry("inVLabel", inL),
             Entry("label", label), Entry("outV", outV), Entry("outVLabel", outL),
             Entry("properties", p)>>) :
        id \in {Int32Node(13), JStr("e"), OddMapNode},
        inV \in {Int32Node(10), Int64Node(10), UnknownNode},
        inL \in {Absent, JStr("software"), JNum(1)},
        label \in {Absent, JStr("develops"), JNum(1)},
        outV \in {Int32Node(1), JNum(7)},
        outL \in {Absent, JStr("person"), JNull},
        p \in {Absent, JStr("x"), JObj(<<Entry("since", UnknownNode)>>),
               JObj(<<Entry("since",
                            Env("g:Property",
                                MkObj(<<Entry("key", JStr("since")),
                                        Entry("value", Int32Node(2009))>>)))>>)}}

PathParts ==
    {Absent, JStr("a"), JNum(1)}
    \cup {Env("g:List", JArr(a)) :
            a \in SeqsUpTo({JStr("a"), Env("g:Set", JArr(<<>>))}, MaxPathLen)}

PathPayloads ==
    {MkObj(<<Entry("labels", l), Entry("objects", o)>>) :
        l \in PathParts, o \in PathParts}

\* The g:Map envelope with the given entries in wire order, those marked
\* Absent left out: ["k1", v1, "k2", v2, ...].
MkMap(entries) ==
    LET e == SelectSeq(entries, LAMBDA x : x.val.k # "absent") IN
    Env("g:Map", JArr([i \in 1..(2 * Len(e)) |->
                          IF i % 2 = 1 THEN JStr(e[(i + 1) \div 2].key)
                          ELSE e[i \div 2].val]))

\* The payload of a g:Metrics in the key order of test_traversal_metrics.
MetricPayload(dur, counts, name, annotations, id) ==
    MkMap(<<Entry("dur", dur), Entry("counts", counts), Entry("name", name),
            Entry("annotations", annotations), Entry("id", id)>>)

CountsNodes ==
    {Absent, JStr("x")}
    \cup {MkMap(<<Entry("traverserCount", tc), Entry("elementCount", ec)>>) :
            tc \in {Absent, Int64Node(4), Int32Node(4)},
            ec \in {Absent, Int64Node(13), JStr("x")}}

AnnotationsNodes ==
    {Absent, JStr("x")}
    \cup {MkMap(<<Entry("percentDur", pd)>>) :
            pd \in {Absent, DoubleNode(25), Int32Node(25)}}

MetricPayloads ==
    {MetricPayload(dur, counts, name, annotations, id) :
        dur \in {Absent, DoubleNode(100), Int32Node(100)},
        counts \in CountsNodes,
        name \in {Absent, JStr("TreeStep"), Int32Node(1)},
        annotations \in AnnotationsNodes,
        id \in {Absent, JStr("4.0.0()"), Int32Node(1)}}

MetricNode(id, tc, ec) ==
    Env("g:Metrics",
        MetricPayload(DoubleNode(100),
                      MkMap(<<Entry("traverserCount", Int64Node(tc)),
                              Entry("elementCount", Int64Node(ec))>>),
                      JStr("TreeStep"),
                      MkMap(<<Entry("percentDur", DoubleNode(25))>>),
                      JStr(id)))

MetricsElems ==
    {MetricNode("7.0.0()", 4, 13), MetricNode("2.0.0()", 7, 1), JStr("a"),
     Int32Node(1)}

MetricsPayloads ==
    {MkMap(<<Entry("dur", dur), Entry("metrics", ms)>>) :
        dur \in {Absent, DoubleNode(4), Int32Node(4)},
        ms \in {Absent, JStr("x")}
               \cup {Env("g:List", JArr(a)) : a \in SeqsUpTo(MetricsElems, MaxMetrics)}}

\* Envelopes of registered tags with an unknown tag one or two levels down.
NestedUnknownNodes ==
    {Env("g:Path", MkObj(<<Entry("labels", Env("g:List", JArr(<<>>))),
                           Entry("objects", Env("g:List", JArr(<<UnknownNode>>)))>>)),
     Env("g:Path", MkObj(<<Entry("labels", OddMapNode),
                           Entry("objects", UnknownNode)>>)),
     Env("g:Property", MkObj(<<Entry("key", JStr("since")),
                               Entry("value", UnknownNode)>>)),
     Env("g:Property", MkObj(<<Entry("key", JNum(1)), Entry("value", UnknownNode)>>)),
     VPNode(Int64Node(0), UnknownNode, Absent),
     VPNode(Int64Node(0), JStr("marko"), JObj(<<Entry("startTime", UnknownNode)>>)),
     Env("g:Vertex", MkObj(<<Entry("id", Int32Node(1)),
                             Entry("properties",
                                   JObj(<<Entry("name", JArr(<<UnknownNode>>))>>))>>)),
     Env("g:Vertex", MkObj(<<Entry("id", Int32Node(1)),
                             Entry("properties",
                                   JObj(<<Entry("age", JStr("x")),
                                          Entry("name", JArr(<<UnknownNode>>))>>))>>)),
     Env("g:TraversalMetrics", MkMap(<<Entry("dur", UnknownNode)>>)),
     Env("g:Metrics", Env("g:List", JArr(<<Int32Node(1), UnknownNode>>))),
     Env("g:TraversalExplanation", MkMap(<<Entry("original", UnknownNode)>>)),
     Env("g:Set", JArr(<<Env("g:Map", JArr(<<JStr("a"), UnknownNode>>))>>)),
     Env("g:Int32", UnknownNode)}

Inputs ==
    ArrayNodes \cup IdNodes \cup PropertiesNodes \cup VertexPropertyPayloads
    \cup VertexPayloads \cup EdgePayloads \cup PathPayloads
    \cup MetricPayloads \cup MetricsPayloads \cup NestedUnknownNodes

Tags == Registry \cup {"g:Foo"}

(***************************************************************************)
(* GraphTraversal and AnonymousTraversalSource                             *)
(***************************************************************************)
\* One bytecode step: (operator name, [argument values]).
Step(name, args) == [name |-> name, args |-> args]

\* Bytecode::default(): no steps.
BytecodeDefault == <<>>

\* TraversalStrategies::new(strategies)
NewTraversalStrategies(strategies) == strategies

\* GraphTraversal::new(strategies, bytecode) as GraphTraversal<start, end>;
\* bytecode is the buffer the handle owns, named by its index in buffers.
NewGraphTraversal(start, end, strategies, bytecode) ==
    [start |-> start, end |-> end, strategies |-> strategies, bytecode |-> bytecode]

\* GraphTraversal::bytecode(&self): the steps of the buffer the handle owns.
bytecode(t) == buffers[t.bytecode]

\* self.bytecode.add_step(name, args) on the buffer of t, among the buffers
\* bufs: the step is appended, the steps before it stay.
add_step(bufs, t, name, args) ==
    [bufs EXCEPT ![t.bytecode] = Append(@, Step(name, args))]

\* labels.into().0.into_iter().map(GValue::from).collect()
LabelArgs(labels) == [i \in 1..Len(labels) |-> GString(labels[i])]

LabelSets == {<<>>, <<"knows">>, <<"knows", "created">>}

Predicates == {GString("marko"), GInt32(29)}

StrategySets == {<<>>, <<"RemoteStrategy">>}

\* The record of a call: the method, the handle it was made on (0: the
\* source), and the labels (for has, the key) and the predicate supplied.
Call(fn, on, labels, predicate) ==
    [fn |-> fn, on |-> on, labels |-> labels, predicate |-> predicate]

\* AnonymousTraversalSource::new(): one traversal with no strategies and the
\* default bytecode; no handle has been returned yet.
TraversalInit ==
    /\ buffers = <<BytecodeDefault>>
    /\ source = NewGraphTraversal("GValue", "GValue", NewTraversalStrategies(<<>>), 1)
    /\ handles = <<>>
    /\ last = Call("new", 0, <<>>, GNull)
    /\ calls = 0

\* GraphTraversal::new(strategies, Bytecode::default()) by a caller.
NewTraversal(strategies) ==
    /\ calls < MaxCalls
    /\ buffers' = Append(buffers, BytecodeDefault)
    /\ handles' = Append(handles,
                         NewGraphTraversal("GValue", "GValue",
                                           NewTraversalStrategies(strategies),
                                           Len(buffers) + 1))
    /\ last' = Call("new", Len(handles) + 1, <<>>, GNull)
    /\ calls' = calls + 1
    /\ UNCHANGED <<source, decoderVars>>

\* handles[i].has_label(labels): returns self.
has_label(i, labels) ==
    /\ calls < MaxCalls
    /\ i \in 1..Len(handles)
    /\ buffers' = add_step(buffers, handles[i], "hasLabel", LabelArgs(labels))
    /\ last' = Call("has_label", i, labels, GNull)
    /\ calls' = calls + 1
    /\ UNCHANGED <<source, handles, decoderVars>>

\* add_v returning a handle on a new buffer that holds only the new step.
add_v_new_bytecode(i, label) ==
    /\ calls < MaxCalls
    /\ i \in 1..Len(handles)
    /\ buffers' = Append(buffers, <<Step("addV", LabelArgs(label))>>)
    /\ handles' = [handles EXCEPT
                     ![i] = NewGraphTraversal("Vertex", "Vertex", @.strategies,
                                              Len(buffers) + 1)]
    /\ last' = Call("add_v", i, label, GNull)
    /\ calls' = calls + 1
    /\ UNCHANGED <<source, decoderVars>>

\* handles[i].add_v(label): returns GraphTraversal<Vertex, Vertex> made of
\* the strategies and the bytecode of self.
add_v(i, label) ==
    /\ calls < MaxCalls
    /\ i \in 1..Len(handles)
    /\ buffers' = add_step(buffers, handles[i], "addV", LabelArgs(label))
    /\ handles' = [handles EXCEPT
                     ![i] = NewGraphTraversal("Vertex", "Vertex", @.strategies,
                                              @.bytecode)]
    /\ last' = Call("add_v", i, label, GNull)
    /\ calls' = calls + 1
    /\ UNCHANGED <<source, decoderVars>>

\* handles[i].has(key, predicate): returns self.
has(i, key, predicate) ==
    /\ calls < MaxCalls
    /\ i \in 1..Len(handles)
    /\ buffers' = add_step(buffers, handles[i], "has", <<GString(key), predicate>>)
    /\ last' = Call("has", i, <<key>>, predicate)
    /\ calls' = calls + 1
    /\ UNCHANGED <<source, handles, decoderVars>>

\* handles[i].out(labels): returns GraphTraversal<S, Vertex> made of the
\* strategies and the bytecode of self.
GraphTraversal_out(i, labels) ==
    /\ calls < MaxCalls
    /\ i \in 1..Len(handles)
    /\ buffers' = add_step(buffers, handles[i], "out", LabelArgs(labels))
    /\ handles' = [handles EXCEPT
                     ![i] = NewGraphTraversal(@.start, "Vertex", @.strategies,
                                              @.bytecode)]
    /\ last' = Call("out", i, labels, GNull)
    /\ calls' = calls + 1
    /\ UNCHANGED <<source, decoderVars>>

\* self.traversal.clone(): a handle with the strategies of t that owns a
\* buffer of its own, allocated after those in use.
clone(t) == [t EXCEPT !.bytecode = Len(buffers) + 1]

\* The buffers once clone(t) exists: its buffer holds a copy of the steps of t.
Cloned(t) == Append(buffers, bytecode(t))

\* source.count(): self.traversal.clone().count(), a GraphTraversal<GValue, i64>.
AnonymousTraversalSource_count ==
    LET c == clone(source) IN
    /\ calls < MaxCalls
    /\ buffers' = add_step(Cloned(source), c, "count", <<>>)
    /\ handles' = Append(handles,
                         NewGraphTraversal(c.start, "i64", c.strategies, c.bytecode))
    /\ last' = Call("count", 0, <<>>, GNull)
    /\ calls' = calls + 1
    /\ UNCHANGED <<source, decoderVars>>

\* source.out(labels) stepping the traversal of the source itself, without
\* the clone.
AnonymousTraversalSource_out_no_clone(labels) ==
    /\ calls < MaxCalls
    /\ buffers' = add_step(buffers, source, "out", LabelArgs(labels))
    /\ handles' = Append(handles,
                         NewGraphTraversal(source.start, "Vertex", source.strategies,
                                           source.bytecode))
    /\ last' = Call("out", 0, labels, GNull)
    /\ calls' = calls + 1
    /\ UNCHANGED <<source, decoderVars>>

\* source.out(labels): self.traversal.clone().out(labels), a
\* GraphTraversal<GValue, Vertex>.
AnonymousTraversalSource_out(labels) ==
    LET c == clone(source) IN
    /\ calls < MaxCalls
    /\ buffers' = add_step(Cloned(source), c, "out", LabelArgs(labels))
    /\ handles' = Append(handles,
                         NewGraphTraversal(c.start, "Vertex", c.strategies, c.bytecode))
    /\ last' = Call("out", 0, labels, GNull)
    /\ calls' = calls + 1
    /\ UNCHANGED <<source, decoderVars>>

\* source.values(labels): self.traversal.clone().values(labels), a
\* GraphTraversal<GValue, GValue>.
AnonymousTraversalSource_values(labels) ==
    LET c == clone(source) IN
    /\ calls < MaxCalls
    /\ buffers' = add_step(Cloned(source), c, "values", LabelArgs(labels))
    /\ handles' = Append(handles,
                         NewGraphTraversal(c.start, "GValue", c.strategies, c.bytecode))
    /\ last' = Call("values", 0, labels, GNull)
    /\ calls' = calls + 1
    /\ UNCHANGED <<source, decoderVars>>

\* No decode call is made while traversals are built.
InitTraversal ==
    /\ val = JNull
    /\ op = "none"
    /\ out = NotRun
    /\ TraversalInit

NextTraversal ==
    \/ \E strategies \in StrategySets : NewTraversal(strategies)
    \/ \E i \in 1..MaxCalls, labels \in LabelSets : has_label(i, labels)
    \/ \E i \in 1..MaxCalls, label \in LabelSets : add_v(i, label)
    \/ \E i \in 1..MaxCalls, predicate \in Predicates : has(i, "name", predicate)
    \/ \E i \in 1..MaxCalls, labels \in LabelSets : GraphTraversal_out(i, labels)
    \/ AnonymousTraversalSource_count
    \/ \E labels \in LabelSets : AnonymousTraversalSource_out(labels)
    \/ \E labels \in LabelSets : AnonymousTraversalSource_values(labels)

SpecTraversal == InitTraversal /\ [][NextTraversal]_vars

(***************************************************************************)
(* One decode call per behaviour                                           *)
(***************************************************************************)
Init ==
    /\ val \in Inputs
    /\ op = "none"
    /\ out = NotRun
    /\ TraversalInit

\* deserializer_v3(&json!({"@type": tag, "@value": val}))
Read(tag) ==
    /\ op = "none"
    /\ op' = tag
    /\ out' = deserializer_v3(Env(tag, val))
    /\ UNCHANGED <<val, traversalVars>>

\* deserializer_v3(&val)
ReadBare ==
    /\ op = "none"
    /\ op' = "bare"
    /\ out' = deserializer_v3(val)
    /\ UNCHANGED <<val, traversalVars>>

\* deserialize_id(&deserializer_v3, &val)
DeserializeId ==
    /\ op = "none"
    /\ op' = "id"
    /\ out' = deserialize_id(val)
    /\ UNCHANGED <<val, traversalVars>>

\* deserialize_vertex_properties(&deserializer_v3, &val)
DeserializeVertexProperties ==
    /\ op = "none"
    /\ op' = "properties"
    /\ out' = deserialize_vertex_properties(val)
    /\ UNCHANGED <<val, traversalVars>>

Next ==
    \/ \E tag \in Tags : Read(tag)
    \/ ReadBare
    \/ DeserializeId
    \/ DeserializeVertexProperties

Spec == Init /\ [][Next]_vars

(***************************************************************************)
(* Properties of the decoders                                              *)
(***************************************************************************)
Min(S) == CHOOSE x \in S : \A y \in S : x <= y

Max(S) == CHOOSE x \in S : \A y \in S : x >= y

\* The outcomes of read on each element of an array, in wire order.
Reads(a) == [i \in 1..Len(a) |-> deserializer_v3(a[i])]

EvenPositions(a) == {i \in 1..Len(a) : i % 2 = 1}

\* C1: a g:Map envelope whose @value array has odd length decodes to an error
\* value returned to the caller (never a panic, never a map), whatever the
\* elements are.
C1_OddMapIsError ==
    (op = "g:Map" /\ val.k = "arr" /\ Len(val.a) % 2 = 1) => IsErr(out)

\* The map the pairs of an array describe: one entry per key string, holding
\* read of the value of the last pair that carries the key.
LastWins(a) ==
    {Entry(a[i].s, Reads(a)[Max({j \in EvenPositions(a) : a[j].s = a[i].s}) + 1].v) :
        i \in EvenPositions(a)}

\* C2: a g:Map envelope whose @value is an even-length array with a string at
\* every even position (and values that decode) yields the Map of exactly those
\* keys, each mapped to read of the value of the last pair with that key; the
\* empty array yields the empty Map; a non-string at an even position is a
\* decode error.
C2_MapDecode ==
    (op = "g:Map" /\ val.k = "arr" /\ Len(val.a) % 2 = 0) =>
        /\ Len(val.a) = 0 => out = Ok(GMap({}))
        /\ ( /\ \A i \in EvenPositions(val.a) : val.a[i].k = "str"
             /\ \A i \in 1..Len(val.a) : i % 2 = 0 => IsOk(Reads(val.a)[i]) )
           => out = Ok(GMap(LastWins(val.a)))
        /\ (\E i \in EvenPositions(val.a) : val.a[i].k # "str") => IsErr(out)

\* C3: for every JSON array payload g:List and g:Set decode to the same result:
\* when every element decodes, the List of read(payload[i]) in wire order with
\* duplicates kept; otherwise the failure of the first element that fails, and
\* no partial list.
C3_ListAndSetDecode ==
    (op \in {"g:List", "g:Set"} /\ val.k = "arr") =>
        LET reads == Reads(val.a)
            bad == {i \in 1..Len(val.a) : ~IsOk(reads[i])}
        IN  /\ out = deserializer_v3(Env("g:List", val))
            /\ out = deserializer_v3(Env("g:Set", val))
            /\ IF bad = {}
               THEN /\ IsOk(out) /\ out.v.t = "List"
                    /\ Len(out.v.l) = Len(val.a)
                    /\ \A i \in 1..Len(val.a) : out.v.l[i] = reads[i].v
               ELSE out = reads[Min(bad)]

\* A g:Set with a repeated element decoded to a List that keeps both copies.
W3_SetKeepsDuplicates ==
    /\ op = "g:Set" /\ IsOk(out) /\ Len(out.v.l) = 3
    /\ out.v.l[1] = out.v.l[3] /\ out.v.l[1] # out.v.l[2]

\* A node that is not a typed envelope: what read rejects as untyped JSON.
Untyped(v) == v.k \in {"num", "arr"} \/ (v.k = "obj" /\ ~IsEnvelope(v))

\* C4: the Id deserializer falls back to Id::String(text of the node) only when
\* read(node) fails because the node is untyped JSON; every other failure of
\* read(node) is returned to the caller unchanged and no Id is produced.
C4_IdFallbackOnlyUntyped ==
    (op = "id" /\ IsErr(deserializer_v3(val))) =>
        IF Untyped(val)
        THEN out = Ok(GIDString(ToText(val)))
        ELSE out = deserializer_v3(val)

\* C5: when read(node) succeeds the Id deserializer returns the Id of the same
\* variant and payload for String, Int32 and Int64, and the decode error
\* "cannot be an id" for every other decoded variant.
C5_IdKeepsVariant ==
    (op = "id" /\ IsOk(deserializer_v3(val))) =>
        LET g == deserializer_v3(val).v IN
        IF g.t \in {"String", "Int32", "Int64"}
        THEN /\ IsOk(out)
             /\ out.v.t = "GID::" \o g.t
             /\ out.v.s = g.s
             /\ out.v.n = g.n
        ELSE IsErr(out) /\ out.ek = "cannot be an id"

\* A g:Int32 node decoded to Id::Int32 of the same number.
W5_Int32Id ==
    /\ op = "id" /\ val = Int32Node(1) /\ out = Ok(GIDInt32(1))

\* C6: a g:Vertex payload with a decodable id yields a Vertex with that id, the
\* payload's label string or "vertex" when label is absent, and an empty
\* property map when properties is absent or null; a present non-string label
\* is a decode error.
C6_VertexDecode ==
    (op = "g:Vertex" /\ IsOk(deserialize_id(Get(val, "id")))) =>
        LET id == deserialize_id(Get(val, "id")).v
            badLabel == Has(val, "label") /\ Get(val, "label").k # "str"
            label == IF Has(val, "label") THEN Get(val, "label").s ELSE "vertex"
        IN  /\ badLabel => IsErr(out)
            /\ (~badLabel /\ Get(val, "properties").k = "null")
                  => out = Ok(NewVertex(id, label, {}))
            /\ IsOk(out) => out.v.t = "Vertex" /\ out.v.l = <<id>> /\ out.v.s = label

\* {"id": Int32 45} alone decoded to Vertex(Int32(45), "vertex", {}).
W6_DefaultVertex ==
    /\ op = "g:Vertex" /\ ~Has(val, "label") /\ ~Has(val, "properties")
    /\ out = Ok(NewVertex(GIDInt32(45), "vertex", {}))

\* The elements of one property array, each read and downcast to VertexProperty.
PropertyReads(arr) ==
    [i \in 1..Len(arr) |-> Take(deserializer_v3(arr[i]), "VertexProperty")]

\* C7: given a JSON object the vertex-properties sub-decoder returns one entry
\* per key holding the read results of its array in order, each a
\* VertexProperty; it returns a decode error if a value is not an array, if an
\* element fails to read or if an element decodes to another variant; given
\* a value that is neither object nor null it returns a decode error.
C7_VertexProperties ==
    (op = "properties") =>
        /\ val.k \notin {"obj", "null"} => IsErr(out)
        /\ val.k = "obj" =>
              IF \E i \in 1..Len(val.o) :
                    \/ val.o[i].val.k # "arr"
                    \/ \E j \in 1..Len(val.o[i].val.a) :
                          ~IsOk(PropertyReads(val.o[i].val.a)[j])
              THEN IsErr(out)
              ELSE /\ IsOk(out)
                   /\ out.v.m =
                        {Entry(val.o[i].key,
                               GList([j \in 1..Len(val.o[i].val.a) |->
                                        PropertyReads(val.o[i].val.a)[j].v])) :
                            i \in 1..Len(val.o)}

\* The payload without one of its keys.
WithoutKey(v, key) ==
    IF v.k = "obj" THEN JObj(SelectSeq(v.o, LAMBDA e : e.key # key)) ELSE v

\* The shapes the vertex decoder accepts for properties: absent, null, or an
\* object whose every value is an array.
PropertiesShapeOk(v) ==
    \/ ~Has(v, "properties")
    \/ Get(v, "properties").k = "null"
    \/ /\ Get(v, "properties").k = "obj"
       /\ \A i \in 1..Len(Get(v, "properties").o) :
             Get(v, "properties").o[i].val.k = "arr"

\* C8 as claimed: a g:VertexProperty whose properties is present and is neither
\* null nor an object whose every value is an array fails to decode.
C8_MetaPropertiesChecked ==
    (op = "g:VertexProperty" /\ ~PropertiesShapeOk(val)) => IsErr(out)

\* C8 as amended: decoding a g:VertexProperty never looks at its properties
\* field: the outcome is that of the same payload without the field, and with a
\* usable label, id and value the decode succeeds whatever shape properties has.
C8_MetaPropertiesIgnored ==
    (op = "g:VertexProperty") =>
        /\ out = deserializer_v3(Env("g:VertexProperty", WithoutKey(val, "properties")))
        /\ ( /\ ~(Has(val, "label") /\ Get(val, "label").k # "str")
             /\ IsOk(deserialize_id(Get(val, "id")))
             /\ IsOk(deserializer_v3(Get(val, "value"))) )
           => out = Ok(NewVertexProperty(
                         deserialize_id(Get(val, "id")).v,
                         IF Has(val, "label") THEN Get(val, "label").s
                         ELSE "vertex_property",
                         deserializer_v3(Get(val, "value")).v))

\* A vertex-property whose properties is a string decoded successfully.
W8_StringPropertiesAccepted ==
    /\ op = "g:VertexProperty" /\ Get(val, "properties").k = "str"
    /\ IsOk(out) /\ out.v.t = "VertexProperty"

\* C9: every g:Path that decodes has a labels list and an objects list of equal
\* length; a payload whose labels is not a list, or whose labels and objects
\* decode to different lengths, produces no Path.
C9_PathEqualLength ==
    (op = "g:Path" /\ IsOk(out)) =>
        /\ out.v.t = "Path"
        /\ out.v.l[1].t = "List"
        /\ out.v.l[2].t = "List"
        /\ Len(out.v.l[1].l) = Len(out.v.l[2].l)

\* C10: a g:Edge payload yields an Edge whose id, inV id and outV id are the Id
\* deserializer's results for id, inV and outV, whose label is label or "edge",
\* whose inVLabel / outVLabel are the required string fields (absent or
\* non-string is a decode error), and whose property map is empty whatever
\* properties contains.
C10_EdgeDecode ==
    (op = "g:Edge") =>
        /\ (Get(val, "inVLabel").k # "str" \/ Get(val, "outVLabel").k # "str")
              => IsErr(out)
        /\ IsOk(out) =>
              /\ out.v.t = "Edge"
              /\ out.v.s = (IF Has(val, "label") THEN Get(val, "label").s ELSE "edge")
              /\ out.v.l = <<deserialize_id(Get(val, "id")).v,
                             deserialize_id(Get(val, "inV")).v,
                             GString(Get(val, "inVLabel").s),
                             deserialize_id(Get(val, "outV")).v,
                             GString(Get(val, "outVLabel").s)>>
              /\ out.v.m = {}

\* C11: when the payload of a g:TraversalMetrics decodes to a Map, the result
\* is TraversalMetrics(dur, ms) if the map has a Double `dur` and a List
\* `metrics`, ms being the elements of that list of variant Metric in wire
\* order (every other element dropped, no error); if `dur` or `metrics` is
\* missing or of another variant, an error is returned.
C11_TraversalMetricsDecode ==
    op = "g:TraversalMetrics" =>
        LET payload == deserializer_v3(val) IN
        (IsOk(payload) /\ payload.v.t = "Map") =>
            LET m == payload.v.m IN
            IF /\ MapHas(m, "dur") /\ MapGet(m, "dur").t = "Double"
               /\ MapHas(m, "metrics") /\ MapGet(m, "metrics").t = "List"
            THEN out = Ok(NewTraversalMetrics(
                             MapGet(m, "dur"),
                             SelectSeq(MapGet(m, "metrics").l,
                                       LAMBDA e : e.t = "Metric")))
            ELSE IsErr(out)

\* A decoded TraversalMetrics that kept a Metric and dropped another element.
W11_NonMetricDropped ==
    /\ op = "g:TraversalMetrics"
    /\ IsOk(out)
    /\ out.v.t = "TraversalMetrics"
    /\ Len(out.v.l[2].l) >= 1
    /\ Len(out.v.l[2].l) < Len(MapGet(deserializer_v3(val).v.m, "metrics").l)

\* The fields deserialize_metric requires of the decoded map m, as
\* <<owner map, key, variant>>; the keys of counts and annotations are
\* required only when that map is there.
MetricRequired(m) ==
    {<<m, "dur", "Double">>, <<m, "id", "String">>, <<m, "name", "String">>,
     <<m, "counts", "Map">>, <<m, "annotations", "Map">>}
    \cup (IF MapHas(m, "counts") /\ MapGet(m, "counts").t = "Map"
          THEN {<<MapGet(m, "counts").m, "traverserCount", "Int64">>,
                <<MapGet(m, "counts").m, "elementCount", "Int64">>}
          ELSE {})
    \cup (IF MapHas(m, "annotations") /\ MapGet(m, "annotations").t = "Map"
          THEN {<<MapGet(m, "annotations").m, "percentDur", "Double">>}
          ELSE {})

MetricAbsent(m) == {f \in MetricRequired(m) : ~MapHas(f[1], f[2])}

MetricWrongVariant(m) ==
    {f \in MetricRequired(m) : MapHas(f[1], f[2]) /\ MapGet(f[1], f[2]).t # f[3]}

MissingField(field) == Err("Json", "Field " \o field \o " not found in g:Metrics")

\* C12: when the payload of a g:Metrics decodes to a map, the decode succeeds
\* exactly if the map has dur (Double), id (String), name (String), counts (a
\* Map with Int64 traverserCount and elementCount) and annotations (a Map with
\* Double percentDur); the Metric then carries the wire elementCount as its
\* element count and the wire traverserCount as its traverser count; with a
\* key absent the error is the missing-field error naming that key and
\* g:Metrics, with a key of the wrong variant it is the downcast error (with
\* both kinds of defect, one of the two).
C12_MetricDecode ==
    op = "g:Metrics" =>
        LET payload == deserializer_v3(val) IN
        (IsOk(payload) /\ payload.v.t = "Map") =>
            LET m == payload.v.m
                absent == MetricAbsent(m)
                wrong == MetricWrongVariant(m)
            IN  /\ IsOk(out) <=> (absent = {} /\ wrong = {})
                /\ IsOk(out) =>
                      out.v = NewMetric(MapGet(m, "id").s, MapGet(m, "name").s,
                                        MapGet(m, "dur"),
                                        MapGet(MapGet(m, "counts").m, "elementCount"),
                                        MapGet(MapGet(m, "counts").m, "traverserCount"),
                                        MapGet(MapGet(m, "annotations").m, "percentDur"))
                /\ (absent # {} /\ wrong = {}) =>
                      \E f \in absent : out = MissingField(f[2])
                /\ (wrong # {} /\ absent = {}) => out = Err("Cast", "Downcast")
                /\ (wrong # {} /\ absent # {}) =>
                      \/ out = Err("Cast", "Downcast")
                      \/ \E f \in absent : out = MissingField(f[2])

\* A decoded Metric whose element count (13) and traverser count (4) differ.
W12_CountsKept ==
    /\ op = "g:Metrics"
    /\ IsOk(out)
    /\ out.v.t = "Metric"
    /\ out.v.l[3] = GInt64(13)
    /\ out.v.l[4] = GInt64(4)

\* One step of a decoder that can end it early: a check of the payload's
\* shape (Gate), or a call of the reader on a child node (ReadStep); pass
\* tells whether the decoder goes on after the step.
Gate(pass) == [read |-> FALSE, node |-> JNull, pass |-> pass]

ReadStep(node, pass) == [read |-> TRUE, node |-> node, pass |-> pass]

\* The steps of deserialize_vertex_properties over the entries i.. of o.
RECURSIVE PropertiesSteps(_, _)
PropertiesSteps(o, i) ==
    IF i > Len(o) THEN <<>>
    ELSE <<Gate(o[i].val.k = "arr")>>
         \o (IF o[i].val.k # "arr" THEN <<>>
             ELSE [j \in 1..Len(o[i].val.a) |->
                     ReadStep(o[i].val.a[j],
                              IsOk(Take(deserializer_v3(o[i].val.a[j]),
                                        "VertexProperty")))])
         \o PropertiesSteps(o, i + 1)

IdStep(p, key) == ReadStep(Get(p, key), IsOk(deserialize_id(Get(p, key))))

\* The steps of the decoder registered for tag on the payload p, in the
\* order of the code.
DecoderSteps(tag, p) ==
    CASE tag \in {"g:List", "g:Set"} ->
            IF p.k # "arr" THEN <<>>
            ELSE [i \in 1..Len(p.a) |-> ReadStep(p.a[i], IsOk(deserializer_v3(p.a[i])))]
      [] tag = "g:Map" ->
            IF p.k # "arr" THEN <<>>
            ELSE [i \in 1..Len(p.a) |->
                    IF i % 2 = 1 THEN Gate(p.a[i].k = "str" /\ i < Len(p.a))
                    ELSE ReadStep(p.a[i], IsOk(deserializer_v3(p.a[i])))]
      [] tag = "g:Vertex" ->
            <<Gate(IsOk(LabelOf(p, "label", "vertex"))), IdStep(p, "id")>>
            \o (IF Get(p, "properties").k = "obj"
                THEN PropertiesSteps(Get(p, "properties").o, 1) ELSE <<>>)
      [] tag = "g:VertexProperty" ->
            <<Gate(IsOk(LabelOf(p, "label", "vertex_property"))), IdStep(p, "id"),
              ReadStep(Get(p, "value"), TRUE)>>
      [] tag = "g:Property" ->
            <<Gate(IsOk(LabelOf(p, "key", "property"))), ReadStep(Get(p, "value"), TRUE)>>
      [] tag = "g:Edge" ->
            <<Gate(IsOk(LabelOf(p, "label", "edge"))), IdStep(p, "id"),
              IdStep(p, "inV"), Gate(IsOk(StringField(p, "inVLabel"))),
              IdStep(p, "outV")>>
      [] tag = "g:Path" ->
            <<ReadStep(Get(p, "labels"), IsOk(deserializer_v3(Get(p, "labels")))),
              ReadStep(Get(p, "objects"), TRUE)>>
      [] tag \in {"g:TraversalMetrics", "g:Metrics", "g:TraversalExplanation"} ->
            <<ReadStep(p, TRUE)>>
      [] OTHER -> <<>>

\* Reading v reaches, at some depth, an envelope whose @type is a string
\* outside the registry: v is one, or a decoder calls the reader on a child
\* that reaches one, every step before that call having passed.
RECURSIVE ReadsUnknownTag(_)
ReadsUnknownTag(v) ==
    /\ IsEnvelope(v)
    /\ Get(v, "@type").k = "str"
    /\ \/ Get(v, "@type").s \notin Registry
       \/ LET st == DecoderSteps(Get(v, "@type").s, Get(v, "@value")) IN
          \E i \in 1..Len(st) :
              /\ st[i].read
              /\ \A j \in 1..(i - 1) : st[j].pass
              /\ ReadsUnknownTag(st[i].node)

\* The node handed to the reader by the call op.
TopNode == IF op = "bare" THEN val ELSE Env(op, val)

\* C13: the registry is exactly the 17 tags of GraphSON v3 (the same in every
\* state, whatever calls were made), and a call of the reader that reaches,
\* at any depth, an envelope whose @type is not one of them returns an error.
C13_ClosedRegistry ==
    /\ Registry = {"g:Int32", "g:Int64", "g:Float", "g:Double", "g:Date", "g:UUID",
                   "g:List", "g:Set", "g:Map", "g:Vertex", "g:VertexProperty",
                   "g:Property", "g:Edge", "g:Path", "g:TraversalMetrics",
                   "g:Metrics", "g:TraversalExplanation"}
    /\ Cardinality(Registry) = 17
    /\ (op \in Tags \cup {"bare"} /\ ReadsUnknownTag(TopNode)) => IsErr(out)

\* A call on a registered envelope that met an unknown tag one or more levels
\* down, after a child that was read successfully.
W13_NestedUnknownTag ==
    /\ op \in Registry
    /\ ReadsUnknownTag(TopNode)
    /\ IsErr(out)
    /\ \E i \in 1..Len(DecoderSteps(op, val)) :
          /\ DecoderSteps(op, val)[i].read
          /\ DecoderSteps(op, val)[i].pass
          /\ ~ReadsUnknownTag(DecoderSteps(op, val)[i].node)

\* The bytecode step a call asks for: the operator name of the method and
\* the supplied arguments as values, in the order given.
StepName(fn) ==
    CASE fn = "has_label" -> "hasLabel"
      [] fn = "add_v" -> "addV"
      [] OTHER -> fn

StepOf(call) ==
    Step(StepName(call.fn),
         IF call.fn = "has" THEN <<GString(call.labels[1]), call.predicate>>
         ELSE [k \in 1..Len(call.labels) |-> GString(call.labels[k])])

Fluent(call) == call.on > 0 /\ call.fn \in {"has_label", "add_v", "has", "out"}

FromSource(call) == call.on = 0 /\ call.fn \in {"count", "out", "values"}

\* C14: each fluent step has_label, add_v, has, out on a GraphTraversal leaves
\* the traversal with the steps it had, unchanged and in place, followed by
\* exactly one new step (hasLabel, addV, has, out with the supplied arguments
\* in order), and with the strategies it had; add_v and out hand these to a
\* handle whose end type is Vertex.
C14_FluentStepAppends ==
    [][Fluent(last') =>
          LET i == last'.on IN
          /\ Len(handles') = Len(handles)
          /\ buffers'[handles'[i].bytecode]
                = Append(buffers[handles[i].bytecode], StepOf(last'))
          /\ handles'[i].strategies = handles[i].strategies
          /\ last'.fn \in {"add_v", "out"} => handles'[i].end = "Vertex"]_vars

\* A traversal with strategies that kept its earlier steps through a step
\* that changed its end type.
W14_StepsKeptAcrossEndType ==
    /\ Fluent(last)
    /\ last.fn \in {"add_v", "out"}
    /\ handles[last.on].end = "Vertex"
    /\ handles[last.on].strategies # <<>>
    /\ Len(bytecode(handles[last.on])) >= 2
    /\ bytecode(handles[last.on])[1].name = "has"

\* C15: the traversal of an AnonymousTraversalSource has no steps, whatever
\* calls were made; count, out and values return a traversal that holds
\* exactly the step of that call and leave every other traversal as it was;
\* a step appended to a traversal shows in no other traversal and not in
\* the source.
C15_SourceCallsAreIndependent ==
    [][/\ bytecode(source) = BytecodeDefault
       /\ buffers'[source'.bytecode] = BytecodeDefault
       /\ FromSource(last') =>
             /\ Len(handles') = Len(handles) + 1
             /\ buffers'[handles'[Len(handles')].bytecode] = <<StepOf(last')>>
             /\ \A j \in 1..Len(handles) :
                   buffers'[handles'[j].bytecode] = buffers[handles[j].bytecode]
       /\ Fluent(last') =>
             \A j \in 1..Len(handles) :
                 j # last'.on =>
                     buffers'[handles'[j].bytecode] = buffers[handles[j].bytecode]]_vars

\* Two traversals returned by the source, one of them later extended, the
\* other still holding its one step.
W15_ExtendedCopy ==
    /\ Fluent(last)
    /\ \E j \in 1..Len(handles) :
          /\ j # last.on
          /\ Len(bytecode(handles[j])) = 1
          /\ bytecode(handles[j])[1].name \in {"count", "values"}
    /\ Len(bytecode(handles[last.on])) = 2
    /\ bytecode(handles[last.on])[1].name \in {"count", "values"}
    /\ bytecode(source) = BytecodeDefault
====
